---- MODULE Spec2Model ----
(***************************************************************************)
(* Model of bigquery_etl/load/load_data_from_file.py: the command line    *)
(* entry point, run(), the readiness check __check_contents(), the job    *)
(* submission load_table() and the status poller poll_job().              *)
(*                                                                         *)
(* The storage listing service, the schema file and the warehouse job     *)
(* service are the environment: every answer they can give is drawn from  *)
(* a small set by the action that makes the call.                         *)
(***************************************************************************)
EXTENDS Integers, Sequences, FiniteSets, TLC

VARIABLES
    pc,          \* where the process is: start, enter, check, schema, submit, poll, done, failed
    entry,       \* how run() was entered: "none", "cli" (__main__) or "run" (direct call)
    args,        \* the parsed command line (argparse namespace)
    params,      \* the formal parameters of run()
    cur_count,   \* __check_contents local
    check_count, \* __check_contents local
    list_calls,  \* list_blobs calls issued by the __check_contents call in progress
    hit,         \* some listing among the first CapAttempts returned batch_count
    last_seen,   \* count of the latest listing, -1 before the first
    ready,       \* __check_contents has returned normally
    schema,      \* the schema read from schema_file
    job_data,    \* the body handed to jobs().insert
    inserts,     \* jobs().insert(...).execute calls made
    job,         \* the job resource returned by the insert
    polls,       \* jobs().get(...).execute calls made
    responses,   \* the status of every poll response, in order
    poll_sleeps, \* the durations slept between polls, in order
    failed_in,   \* the stage whose exception ended the process
    err          \* the exception that ended the process

vars == <<pc, entry, args, params, cur_count, check_count, list_calls, hit,
          last_seen, ready, schema, job_data, inserts, job, polls, responses,
          poll_sleeps, failed_in, err>>

(***************************************************************************)
(* Bounds of the model.                                                    *)
(***************************************************************************)
MaxCount == 2      \* expected counts and listing sizes range over 0..MaxCount
MaxPolls == 3      \* polls made before the model stops following the poller

(***************************************************************************)
(* Program constants.                                                      *)
(***************************************************************************)
CapAttempts == 40          \* "if 40 == check_count"
PollSleepSeconds == 1      \* "time.sleep(1)" in poll_job
DefaultPollInterval == 1   \* run(..., poll_interval=1) and --poll_interval default
DefaultNumRetries == 5     \* run(..., num_retries=5) and --num_retries default

(***************************************************************************)
(* Python values.  A value carries its type, so that a string and an       *)
(* integer can be compared (and differ) as they do in Python 2.            *)
(***************************************************************************)
S(s) == [type |-> "str", s |-> s, i |-> 0]
I(n) == [type |-> "int", s |-> "", i |-> n]
IsInt(v) == v.type = "int"

\* str.split('/') for the strings the model uses
Split(s) ==
    CASE s = "gs://bucket/dir/f.json" -> <<"gs:", "", "bucket", "dir", "f.json">>
      [] s = "a/b/c/d"                -> <<"a", "b", "c", "d">>
      [] OTHER                        -> <<s>>

Payloads == {"P", "Q"}
JobIds == {"j1", "j2"}
Schemas == {<<"f1">>, <<"f1", "f2">>}

NoArgs == [project_id |-> S(""), dataset_id |-> S(""), table_name |-> S(""),
           schema_file |-> S(""), data_path |-> S(""),
           poll_interval |-> I(0), num_retries |-> I(0),
           source_format |-> S(""), write_disposition |-> S("")]

NoParams == [project_id |-> S(""), batch_count |-> I(0), dataset_id |-> S(""),
             table_name |-> S(""), schema_file |-> S(""), data_path |-> S(""),
             source_format |-> S(""), write_disposition |-> S(""),
             num_retries |-> I(0), poll_interval |-> I(0)]

NoErr == [kind |-> "none", expected |-> I(0), found |-> 0, location |-> S(""),
          form |-> "none", items |-> {}]

NoJobData == [job_id |-> "", projectId |-> S(""), sourceFormat |-> S(""),
              sourceUri |-> S(""), fields |-> <<>>, datasetId |-> S(""),
              tableId |-> S(""), writeDisposition |-> S(""),
              num_retries |-> I(0)]

NoJob == [projectId |-> S(""), jobId |-> ""]

(***************************************************************************)
(* run(): binding of the actual arguments of a positional call to the      *)
(* formal parameters, in the order of the def; trailing parameters that    *)
(* get no actual take their defaults.                                      *)
(***************************************************************************)
RunDefaults == <<S(""), I(0), S(""), S(""), S(""), S(""),
                 S("NEWLINE_DELIMITED_JSON"), S("WRITE_EMPTY"),
                 I(DefaultNumRetries), I(DefaultPollInterval)>>

Formal(actuals, n) == IF n <= Len(actuals) THEN actuals[n] ELSE RunDefaults[n]

BindRun(actuals) ==
    [project_id        |-> Formal(actuals, 1),
     batch_count       |-> Formal(actuals, 2),
     dataset_id        |-> Formal(actuals, 3),
     table_name        |-> Formal(actuals, 4),
     schema_file       |-> Formal(actuals, 5),
     data_path         |-> Formal(actuals, 6),
     source_format     |-> Formal(actuals, 7),
     write_disposition |-> Formal(actuals, 8),
     num_retries       |-> Formal(actuals, 9),
     poll_interval     |-> Formal(actuals, 10)]

\* the actuals of the call of run() in __main__, in the order written there
MainActuals(a) ==
    <<a.project_id, a.dataset_id, a.table_name, a.schema_file, a.data_path,
      a.source_format, a.write_disposition, a.num_retries, a.poll_interval>>

\* what parser.parse_args() can yield
ParsedArgs ==
    { [project_id |-> S("p"), dataset_id |-> S("d"), table_name |-> S("t"),
       schema_file |-> S("schema.json"), data_path |-> S("gs://bucket/dir/f.json"),
       poll_interval |-> I(pi), num_retries |-> I(DefaultNumRetries),
       source_format |-> S(sf), write_disposition |-> S("WRITE_EMPTY")] :
         pi \in {DefaultPollInterval, 2},
         sf \in {"CSV", "NEWLINE_DELIMITED_JSON", "a/b/c/d"} }

\* the request the command line names: each setting with the argument of its name
NamedRequest(a) ==
    [projectId |-> a.project_id, datasetId |-> a.dataset_id,
     tableId |-> a.table_name, schema_file |-> a.schema_file,
     sourceUri |-> a.data_path, sourceFormat |-> a.source_format,
     writeDisposition |-> a.write_disposition, num_retries |-> a.num_retries]

\* the request run() will hand to load_table, read off its parameters
RunRequest(p) ==
    [projectId |-> p.project_id, datasetId |-> p.dataset_id,
     tableId |-> p.table_name, schema_file |-> p.schema_file,
     sourceUri |-> p.data_path, sourceFormat |-> p.source_format,
     writeDisposition |-> p.write_disposition, num_retries |-> p.num_retries]

(***************************************************************************)
(* run(): an exception raised by a stage ends the process, a stage that    *)
(* returns is followed by the next statement.                              *)
(***************************************************************************)
RunNext_swallow(stage, ok) ==
    CASE stage = "check"  -> "schema"
      [] stage = "schema" -> IF ok THEN "submit" ELSE "failed"
      [] stage = "submit" -> "poll"
      [] stage = "poll"   -> IF ok THEN "done" ELSE "failed"

RunNext(stage, ok) ==
    IF ~ok THEN "failed"
    ELSE CASE stage = "check"  -> "schema"
           [] stage = "schema" -> "submit"
           [] stage = "submit" -> "poll"
           [] stage = "poll"   -> "done"

Init ==
    /\ pc = "start"
    /\ entry = "none"
    /\ args = NoArgs
    /\ params = NoParams
    /\ cur_count = 0
    /\ check_count = 0
    /\ list_calls = 0
    /\ hit = FALSE
    /\ last_seen = -1
    /\ ready = FALSE
    /\ schema = <<>>
    /\ job_data = NoJobData
    /\ inserts = 0
    /\ job = NoJob
    /\ polls = 0
    /\ responses = <<>>
    /\ poll_sleeps = <<>>
    /\ failed_in = "none"
    /\ err = NoErr

\* __main__: parse the command line and call run() with the parsed values
Main ==
    /\ pc = "start"
    /\ \E a \in ParsedArgs :
          /\ args' = a
          /\ params' = BindRun(MainActuals(a))
    /\ entry' = "cli"
    /\ pc' = "enter"
    /\ UNCHANGED <<cur_count, check_count, list_calls, hit, last_seen, ready,
                   schema, job_data, inserts, job, polls, responses,
                   poll_sleeps, failed_in, err>>

\* run() called by another module, every parameter given
CallRun ==
    /\ pc = "start"
    /\ \E n \in 0..MaxCount, dp \in {"gs://bucket/dir/f.json", "f.json"},
          pi \in {DefaultPollInterval, 2} :
          params' = BindRun(<<S("p"), I(n), S("d"), S("t"), S("schema.json"),
                              S(dp), S("CSV"), S("WRITE_EMPTY"),
                              I(DefaultNumRetries), I(pi)>>)
    /\ entry' = "run"
    /\ pc' = "enter"
    /\ UNCHANGED <<args, cur_count, check_count, list_calls, hit, last_seen,
                   ready, schema, job_data, inserts, job, polls, responses,
                   poll_sleeps, failed_in, err>>


(***************************************************************************)
(* __check_contents                                                        *)
(***************************************************************************)
\* the exception of line 136: the message is built with '%d' from
\* batch_count and cur_count, which needs batch_count to be a number
TimeoutError(batch_count, found, data_path) ==
    IF IsInt(batch_count)
    THEN [kind |-> "ValueError", expected |-> batch_count, found |-> found,
          location |-> data_path, form |-> "none", items |-> {}]
    ELSE [kind |-> "TypeError", expected |-> I(0), found |-> 0,
          location |-> S(""), form |-> "none", items |-> {}]

\* lines 122-127: the locals are set and the bucket name is cut out of the path
CheckEnter ==
    /\ pc = "enter"
    /\ cur_count' = 0
    /\ check_count' = 0
    /\ IF Len(Split(params.data_path.s)) >= 3
       THEN /\ pc' = "check"
            /\ UNCHANGED <<failed_in, err>>
       ELSE /\ pc' = RunNext("check", FALSE)
            /\ failed_in' = "check"
            /\ err' = [NoErr EXCEPT !.kind = "IndexError"]
    /\ UNCHANGED <<entry, args, params, list_calls, hit, last_seen, ready,
                   schema, job_data, inserts, job, polls, responses,
                   poll_sleeps>>

\* one turn of the while loop: sleep, list, count, test the cap
ListBlobs ==
    /\ pc = "check"
    /\ params.batch_count # I(cur_count)
    /\ \E n \in 0..MaxCount :
          /\ cur_count' = n
          /\ last_seen' = n
          /\ hit' = (hit \/ (list_calls + 1 <= CapAttempts /\ params.batch_count = I(n)))
          /\ IF CapAttempts = check_count
             THEN /\ err' = TimeoutError(params.batch_count, n, params.data_path)
                  /\ failed_in' = "check"
                  /\ pc' = RunNext("check", FALSE)
                  /\ UNCHANGED check_count
             ELSE /\ check_count' = check_count + 1
                  /\ UNCHANGED <<pc, failed_in, err>>
    /\ list_calls' = list_calls + 1
    /\ UNCHANGED <<entry, args, params, ready, schema, job_data, inserts, job,
                   polls, responses, poll_sleeps>>

\* the while condition is false: the function returns and its frame is gone
CheckReturn ==
    /\ pc = "check"
    /\ params.batch_count = I(cur_count)
    /\ ready' = TRUE
    /\ pc' = RunNext("check", TRUE)
    /\ cur_count' = 0
    /\ check_count' = 0
    /\ list_calls' = 0
    /\ UNCHANGED <<entry, args, params, hit, last_seen, schema, job_data,
                   inserts, job, polls, responses, poll_sleeps, failed_in, err>>

(***************************************************************************)
(* run(): the schema file, then load_table                                 *)
(***************************************************************************)
\* lines 151-152: open the schema file and parse it
OpenSchema ==
    /\ pc = "schema"
    /\ \/ \E sch \in Schemas :
             /\ schema' = sch
             /\ pc' = RunNext("schema", TRUE)
             /\ UNCHANGED <<failed_in, err>>
       \/ /\ pc' = RunNext("schema", FALSE)
          /\ failed_in' = "schema"
          /\ err' = [NoErr EXCEPT !.kind = "IOError"]
          /\ UNCHANGED schema
    /\ UNCHANGED <<entry, args, params, cur_count, check_count, list_calls,
                   hit, last_seen, ready, job_data, inserts, job, polls,
                   responses, poll_sleeps>>

\* the job_data dictionary of load_table, with the num_retries of its execute
LoadTableBody(project_id, dataset_id, table_name, source_schema, source_path, source_format, num_retries, write_disposition, id) ==
    [job_id |-> id, projectId |-> project_id, sourceFormat |-> source_format,
     sourceUri |-> source_path, fields |-> source_schema,
     datasetId |-> dataset_id, tableId |-> table_name,
     writeDisposition |-> write_disposition, num_retries |-> num_retries]

\* lines 154-164 and load_table: one insert, which returns the job or raises
LoadTable ==
    /\ pc = "submit"
    /\ \E id \in JobIds :
          job_data' = LoadTableBody(params.project_id, params.dataset_id,
                                    params.table_name, schema, params.data_path,
                                    params.source_format, params.num_retries,
                                    params.write_disposition, id)
    /\ inserts' = inserts + 1
    /\ \/ \E sid \in JobIds :
             /\ job' = [projectId |-> params.project_id, jobId |-> sid]
             /\ pc' = RunNext("submit", TRUE)
             /\ UNCHANGED <<failed_in, err>>
       \/ /\ pc' = RunNext("submit", FALSE)
          /\ failed_in' = "submit"
          /\ err' = [NoErr EXCEPT !.kind = "HttpError"]
          /\ UNCHANGED job
    /\ UNCHANGED <<entry, args, params, cur_count, check_count, list_calls,
                   hit, last_seen, ready, schema, polls, responses,
                   poll_sleeps>>

(***************************************************************************)
(* poll_job                                                                *)
(***************************************************************************)
\* result['status'] of a poll: an absent key is <<>>, a present one <<value>>
Statuses ==
    [state : {"PENDING", "RUNNING", "DONE"},
     errors : {<<>>} \cup {<<l>> : l \in SUBSET Payloads},
     errorResult : {<<>>} \cup {<<p>> : p \in Payloads}]

\* lines 103-114: what poll_job does with one response
PollOutcome_noErrorsTest(status) ==
    IF status.state = "DONE"
    THEN IF status.errorResult # <<>> THEN "raise_errorResult" ELSE "return"
    ELSE "sleep"

PollOutcome_noReturn(status) ==
    IF status.errors # <<>> THEN "raise_errors"
    ELSE IF status.state = "DONE" /\ status.errorResult # <<>>
         THEN "raise_errorResult"
         ELSE "sleep"

PollOutcome_noErrorResultTest(status) ==
    IF status.errors # <<>> THEN "raise_errors"
    ELSE IF status.state = "DONE" THEN "return" ELSE "sleep"

PollOutcome(status) ==
    IF status.errors # <<>> THEN "raise_errors"
    ELSE IF status.state = "DONE"
         THEN IF status.errorResult # <<>> THEN "raise_errorResult"
              ELSE "return"
         ELSE "sleep"

\* json.dumps(list, indent=4): a text in which each element of the list appears
JsonDumps(list) == [form |-> "json", items |-> list]

\* the RuntimeError raised for a response, by the branch taken
PollError(status, outcome) ==
    IF outcome = "raise_errors"
    THEN [NoErr EXCEPT !.kind = "RuntimeError",
                       !.form = JsonDumps(status.errors[1]).form,
                       !.items = JsonDumps(status.errors[1]).items]
    ELSE [NoErr EXCEPT !.kind = "RuntimeError", !.form = "raw",
                       !.items = {status.errorResult[1]}]

\* line 114: the sleep between two polls
PollSleep(poll_interval) == PollSleepSeconds

\* one turn of the while loop of poll_job
PollJob ==
    /\ pc = "poll"
    /\ polls < MaxPolls
    /\ polls' = polls + 1
    /\ \E st \in Statuses :
          LET outcome == PollOutcome(st) IN
          /\ responses' = Append(responses, st)
          /\ CASE outcome = "sleep" ->
                    /\ poll_sleeps' = Append(poll_sleeps, PollSleep(params.poll_interval))
                    /\ UNCHANGED <<pc, failed_in, err>>
               [] outcome = "return" ->
                    /\ pc' = RunNext("poll", TRUE)
                    /\ UNCHANGED <<poll_sleeps, failed_in, err>>
               [] OTHER ->
                    /\ pc' = RunNext("poll", FALSE)
                    /\ failed_in' = "poll"
                    /\ err' = PollError(st, outcome)
                    /\ UNCHANGED poll_sleeps
    /\ UNCHANGED <<entry, args, params, cur_count, check_count, list_calls,
                   hit, last_seen, ready, schema, job_data, inserts, job>>

Next ==
    \/ Main
    \/ CallRun
    \/ CheckEnter
    \/ ListBlobs
    \/ CheckReturn
    \/ OpenSchema
    \/ LoadTable
    \/ PollJob

Spec == Init /\ [][Next]_vars


(***************************************************************************)
(* Properties                                                              *)
(***************************************************************************)
DoneSuccess(st) == st.state = "DONE" /\ st.errors = <<>> /\ st.errorResult = <<>>
DoneError(st) == st.state = "DONE" /\ st.errorResult # <<>>
NonTerminalClean(st) == st.state # "DONE" /\ st.errors = <<>>
NonTerminalError(st) == st.state # "DONE" /\ st.errors # <<>>

\* __check_contents was called with a count and a path it can split, and is over
CheckOver ==
    /\ entry = "run"
    /\ pc \notin {"start", "enter", "check"}
    /\ err.kind # "IndexError"

\* the poll interval asked for: the flag, or the parameter of a direct call
RequestedPollInterval ==
    IF entry = "cli" THEN args.poll_interval ELSE params.poll_interval

\* C1: once the readiness check is over, it has returned normally if one of
\* the first 40 listings gave exactly the expected count N, and otherwise it has
\* raised the timeout error, which carries N and the count of the last listing.
C1_ReadinessOutcome ==
    CheckOver =>
        /\ hit => (ready /\ failed_in # "check")
        /\ ~hit => /\ failed_in = "check"
                   /\ err.kind = "ValueError"
                   /\ err.expected = params.batch_count
                   /\ err.found = last_seen

\* C2: when the first k-1 responses are non-terminal without an errors field
\* and the k-th is done-success, the poller has returned normally, has made
\* exactly k polls and has received no response after the k-th.
C2_SuccessAfterExactlyKPolls ==
    \A k \in 1..Len(responses) :
        (DoneSuccess(responses[k])
            /\ \A j \in 1..(k - 1) : NonTerminalClean(responses[j]))
        => (pc = "done" /\ failed_in = "none" /\ polls = k /\ Len(responses) = k)

C2_Witness ==
    /\ pc = "done"
    /\ polls = 3
    /\ responses[1].state = "RUNNING"
    /\ responses[2].state = "RUNNING"
    /\ DoneSuccess(responses[3])

\* C3 as stated: whenever a response is done-error with payload P, the poller
\* has failed and the error it raised contains P.
C3_DoneErrorSurfacesPayload ==
    \A k \in 1..Len(responses) :
        DoneError(responses[k])
        => (pc = "failed" /\ responses[k].errorResult[1] \in err.items)

\* C3 as amended: whenever a response is done-error with payload P, the poller
\* has failed on it with a RuntimeError; the error is P itself when the
\* response has no errors field, and the JSON text of the errors field when
\* it has one.
C3_DoneErrorFails ==
    \A k \in 1..Len(responses) :
        DoneError(responses[k])
        => /\ pc = "failed"
           /\ failed_in = "poll"
           /\ polls = k
           /\ err.kind = "RuntimeError"
           /\ IF responses[k].errors = <<>>
              THEN err.form = "raw" /\ err.items = {responses[k].errorResult[1]}
              ELSE err.form = "json" /\ err.items = responses[k].errors[1]

C3_Witness ==
    /\ pc = "failed"
    /\ polls = 2
    /\ responses[1].state = "RUNNING"
    /\ DoneError(responses[2])
    /\ responses[2].errors = <<>>
    /\ err.items = {"P"}

\* C4: when a response carries an errors field while its state is not
\* terminal, the poller has failed on that response and no poll follows it;
\* when it is the first response, exactly one poll has been made.
C4_ErrorFieldStopsPolling ==
    \A k \in 1..Len(responses) :
        NonTerminalError(responses[k])
        => /\ pc = "failed"
           /\ failed_in = "poll"
           /\ err.kind = "RuntimeError"
           /\ polls = k
           /\ Len(responses) = k

C4_Witness ==
    /\ pc = "failed"
    /\ polls = 1
    /\ NonTerminalError(responses[1])
    /\ err.form = "json"

\* C6: after the command line has been parsed and run() called, the request
\* run() is about to make is the one the arguments name: project, dataset,
\* table, schema file, source path, format, write mode and retry count each
\* have the value of the argument of that name.
C6_JobConfiguredByNamedArgs ==
    entry = "cli" => RunRequest(params) = NamedRequest(args)

\* C7: the job-creation call is made at most once and only after the readiness
\* check has returned; polls are made only after the creation call has
\* returned a job; a failed readiness check leaves no job submitted and a
\* failed submission leaves no poll made.
C7_RunIsSequential ==
    /\ inserts <= 1
    /\ inserts > 0 => ready
    /\ polls > 0 => (inserts = 1 /\ job # NoJob)
    /\ failed_in = "check" => (inserts = 0 /\ polls = 0)
    /\ failed_in = "submit" => polls = 0

C7_Witness ==
    /\ pc = "done"
    /\ ready
    /\ inserts = 1
    /\ job # NoJob
    /\ polls >= 2

\* C8: every sleep between two polls lasts the poll interval asked for.
C8_SleepEqualsPollInterval ==
    \A n \in 1..Len(poll_sleeps) : I(poll_sleeps[n]) = RequestedPollInterval

\* C9: a timeout error of the readiness check carries an observed count that
\* differs from the expected count.
C9_TimeoutMeansMismatch ==
    err.kind = "ValueError" => I(err.found) # err.expected

\* C10: the readiness check makes at most 40 listing calls.
C10_AtMostCapListings ==
    list_calls <= CapAttempts

====
